---------------------------- MODULE Spec2Model ----------------------------
(***************************************************************************)
(* pidtree_mon: the tree-load sampler (worker.rs, measure_pid_ticks and    *)
(* get_cumulated), the sampling loop and its one-slot broadcast            *)
(* (Worker::new) and the per-connection handler (Worker::handle_client).   *)
(*                                                                         *)
(* and the client (client.rs: run, OutputLine; config.rs: Test, Field).    *)
(*                                                                         *)
(* The specifications of the module:                                       *)
(*   SpecPure     measure_pid_ticks as a function of (prev, /proc),        *)
(*   Spec         the kernel's process lifecycle, sampled,                 *)
(*   SpecServ     the sampler task, the broadcast, the client handlers,    *)
(*   SpecSampler  the sampler task alone,                                  *)
(*   SpecClient   client::run reading the server's stream (SpecClientLive  *)
(*                adds the fairness of the client and of a live server),   *)
(*   SpecLine     OutputLine::fmt,                                         *)
(*   SpecMatch    Test::matches,                                           *)
(*   SpecField    Field::from_str of a test field, then OutputLine::fmt,   *)
(*   SpecCumulate get_cumulated applied twice.                             *)
(***************************************************************************)
EXTENDS Integers, Sequences, FiniteSets, TLC

VARIABLES
    \* ---- SpecPure: one call of measure_pid_ticks
    procfs,     \* what /proc yields during the enumeration: pid -> stat record
    prev,       \* Option<Sample>: <<>> or <<sample>>
    out,        \* <<>> before the call, <<result>> after it
    \* ---- Spec: the kernel's process table, sampled
    kproc,          \* pid -> [stat_ok, ppid, utime_stime, cutime_cstime, zombie]
    next_pid,       \* the next pid fork hands out (pids are not reused)
    kprev,          \* the sample retained from the previous measurement
    interval_ticks, \* pid -> ticks consumed since the last sample by the pid and
                    \*        the processes that were its descendants when they ran
    sampled,        \* <<>> or <<[ticks, truth, both]>>: the last measurement
    \* ---- SpecServ: the sampler task, the broadcast, the client handlers
    clock,          \* the last value times() returned
    s_pc,           \* the sampler task: "run", "sleep" (sleep_until) or "dead"
    s_prev,         \* its variable prev: <<>> or <<[t, sample]>>
    ch_buf,         \* broadcast: the retained values, oldest first
    ch_tail,        \* broadcast: the number of values sent so far
    ch_closed,      \* broadcast: the sender was dropped
    published,      \* <<>> or <<record of the last iteration that published>>
    handler,        \* per connection: the state of its handle_client call
    shutdown_by,    \* the handlers that called ctrl.shutdown()
    \* ---- SpecClient: one call of client::run
    client,         \* the locals of run and what it has printed
    now,            \* Instant::now()
    \* ---- SpecLine, SpecMatch, SpecField, SpecCumulate: one call of a function
    fn_in,          \* its arguments
    fn_out          \* <<>> before the call, <<result>> after it

pureVars == <<procfs, prev, out>>
lifeVars == <<kproc, next_pid, kprev, interval_ticks, sampled>>
samplerVars == <<clock, s_pc, s_prev, ch_buf, ch_tail, ch_closed, published>>
servVars == <<clock, s_pc, s_prev, ch_buf, ch_tail, ch_closed, published,
              handler, shutdown_by>>
vars == <<procfs, prev, out, kproc, next_pid, kprev, interval_ticks, sampled,
          clock, s_pc, s_prev, ch_buf, ch_tail, ch_closed, published,
          handler, shutdown_by, client, now, fn_in, fn_out>>
clientVars == <<client, now>>
fnVars == <<fn_in, fn_out>>

---------------------------------------------------------------------------
\* Bounds of the model.
MaxPid == 3         \* pids are 1..MaxPid
MaxLifePid == 3     \* Spec: fork hands out pids up to MaxLifePid
MaxTicks == 1       \* utime+stime and cutime+cstime of one stat record: 0..MaxTicks
WordBits == 8       \* u64 / i64 are modelled as WordBits-bit words (TLC's integers are 32-bit)
MaxClients == 2     \* SpecServ: connections accepted
MaxIter == 3        \* SpecServ: iterations of the sampling loop that publish
MaxClockStep == 1   \* SpecServ: ticks between two readings of the clock: 0..MaxClockStep
MaxReq == 2         \* SpecClient: pids requested: 1..MaxReq
MaxTimeout == 1     \* SpecClient: the timeout option: absent or 0..MaxTimeout
MaxTime == 3        \* SpecClient: now is 0..MaxTime, MaxTime standing for any later time
MaxCores == 2       \* SpecLine: num_cpus::get() is 1..MaxCores
MaxFields == 2      \* SpecLine: fields of one output line: 0..MaxFields
MaxLoads == 2       \* SpecLine: loads of one frame: 0..MaxLoads
MaxIds == 3         \* SpecCumulate: the ids of an adjacency map are 1..n, n <= MaxIds
MaxValue == 1       \* SpecCumulate: the value of an id is -MaxValue..MaxValue
MaxHalves == 4      \* SpecMatch: finite values are -MaxHalves/2 .. MaxHalves/2 in steps of 1/2

Pids == 1..MaxPid
Modulus == 2 ^ WordBits

---------------------------------------------------------------------------
\* Machine arithmetic.  overflow_checks is the build's setting: with it an
\* overflowing operation panics, without it the result wraps.

\* u64 - u64 (worker.rs:156): the wrapped result
WrapU64(x) == x % Modulus
\* `as i64` of a u64 (worker.rs:215, 216): two's complement reinterpretation
AsI64(u) == IF u >= Modulus \div 2 THEN u - Modulus ELSE u
\* i64 arithmetic result, wrapped
WrapI64(x) == AsI64(x % Modulus)

RECURSIVE SetToSeq(_)
\* the elements of a set of pids in ascending order (/proc is enumerated in pid order)
SetToSeq(S) ==
    IF S = {} THEN <<>>
    ELSE LET m == CHOOSE x \in S : \A y \in S : x <= y
         IN  <<m>> \o SetToSeq(S \ {m})

---------------------------------------------------------------------------
\* get_cumulated / cumulate: memoised depth-first sum over the adjacency.
\* value is a function; asking it for an id outside its domain is the panic
\* of the closure's expect().  wrap is the result type's wrap-around.

\* a cumulation that leaves the children out
cumulate_flat(root, children, value, cumulated) ==
    [total |-> value[root], cumulated |-> (root :> value[root]) @@ cumulated]

RECURSIVE cumulate(_, _, _, _), cumulateAll(_, _, _, _)
\* returns [total, cumulated]; the memo table is threaded through the calls
cumulate(root, children, value, cumulated) ==
    IF root \in DOMAIN cumulated
    THEN [total |-> cumulated[root], cumulated |-> cumulated]
    ELSE LET sub == cumulateAll(children[root], children, value, cumulated)
             total == value[root] + sub.total
         IN  [total |-> total, cumulated |-> (root :> total) @@ sub.cumulated]

\* the .map(|c| cumulate(c, ..)).sum() over one child list, left to right
cumulateAll(cs, children, value, cumulated) ==
    IF cs = <<>> THEN [total |-> 0, cumulated |-> cumulated]
    ELSE LET first == cumulate(Head(cs), children, value, cumulated)
             rest == cumulateAll(Tail(cs), children, value, first.cumulated)
         IN  [total |-> first.total + rest.total, cumulated |-> rest.cumulated]

\* get_cumulated panics iff some visited id (every key is visited, and every
\* child of a key) has no value or no child list
get_cumulated_panics(children, value) ==
    \E k \in DOMAIN children :
        \/ k \notin DOMAIN value
        \/ \E i \in 1..Len(children[k]) : children[k][i] \notin DOMAIN children

get_cumulated(children, value) ==
    cumulateAll(SetToSeq(DOMAIN children), children, value, <<>>).cumulated

---------------------------------------------------------------------------
\* The two snapshot types.  A stat record of /proc is
\*   [stat_ok, ppid, utime_stime, cutime_cstime]
\* (stat_ok = FALSE: the read of this process's stat fails, worker.rs:114).
\* A Sample is [pids: pid -> PidSample, children: pid -> Seq(pid)].

PidSample(self, reaped) ==
    [total_self_ticks |-> self, cumulated_total_subtree_ticks |-> reaped]

NoSample == [pids |-> <<>>, children |-> <<>>]
Panicked == [panic |-> TRUE, cur |-> NoSample, ticks |-> <<>>]

\* worker.rs:113-128: the processes whose stat was read
Samples(tab) == {p \in DOMAIN tab : tab[p].stat_ok}

\* worker.rs:111, 122-125: a list for every parent named (ppid # 0) and an
\* entry for every process read; lists are in enumeration order
Children(tab) ==
    LET read == Samples(tab)
        keys == read \cup {tab[p].ppid : p \in {q \in read : tab[q].ppid # 0}}
    IN  [k \in keys |-> SetToSeq({p \in read : tab[p].ppid = k})]

\* worker.rs:150-159: cur.self - prev.self in u64, per pid of cur (exact value)
SelfDiff(prevO, tab, pid) ==
    tab[pid].utime_stime
        - (IF prevO # <<>> /\ pid \in DOMAIN prevO[1].pids
           THEN prevO[1].pids[pid].total_self_ticks ELSE 0)

\* prev's self ticks for every pid of prev, alive now or gone
KilledValueAll(prevO, read) ==
    IF prevO = <<>> THEN <<>>
    ELSE [id \in DOMAIN prevO[1].pids |-> prevO[1].pids[id].total_self_ticks]

\* worker.rs:172-184: the closure's value per key of prev.children: 0 for a
\* pid alive now, prev's self ticks for one that is gone
KilledValue(prevO, read) ==
    IF prevO = <<>> THEN <<>>
    ELSE [id \in DOMAIN prevO[1].pids |->
            IF id \in read THEN 0 ELSE prevO[1].pids[id].total_self_ticks]

\* FinalTicks without the correction for the ticks that dying processes had
\* already spent before prev
FinalTicksNoCorrection(pid, self_ticks, cur, prevO, killed) ==
    LET prev_total_subtree_ticks ==
            IF prevO # <<>> /\ pid \in DOMAIN prevO[1].pids
            THEN prevO[1].pids[pid].cumulated_total_subtree_ticks ELSE 0
    IN  WrapI64(AsI64(self_ticks)
                + cur.pids[pid].cumulated_total_subtree_ticks - prev_total_subtree_ticks)

\* worker.rs:192-217: one entry of final_ticks
FinalTicks(pid, self_ticks, cur, prevO, killed) ==
    LET cur_total_subtree_ticks == cur.pids[pid].cumulated_total_subtree_ticks
        prev_total_subtree_ticks ==
            IF prevO # <<>> /\ pid \in DOMAIN prevO[1].pids
            THEN prevO[1].pids[pid].cumulated_total_subtree_ticks ELSE 0
        ticks_of_recently_killed == cur_total_subtree_ticks - prev_total_subtree_ticks
        until_prev == IF pid \in DOMAIN killed THEN killed[pid] ELSE 0
        offset == ticks_of_recently_killed - AsI64(until_prev)
    IN  WrapI64(AsI64(self_ticks) + offset)

\* worker.rs:105-220.  overflow_checks: the build panics on integer overflow
\* (debug profile) or wraps (release profile).
measure_pid_ticks(prevO, tab, overflow_checks) ==
    LET read == Samples(tab)
        children == Children(tab)
        raw_reaped == [p \in read |-> tab[p].cutime_cstime]
    IN
    IF get_cumulated_panics(children, raw_reaped) THEN Panicked
    ELSE
    LET actually_cumulated == get_cumulated(children, raw_reaped)
        cur == [pids |-> [p \in read |->
                    PidSample(tab[p].utime_stime, actually_cumulated[p])],
                children |-> children]
        diffs == [p \in read |-> SelfDiff(prevO, tab, p)]
    IN
    IF overflow_checks /\ \E p \in read : diffs[p] < 0 THEN Panicked
    ELSE
    LET self_ticks_since_prev == [p \in read |-> WrapU64(diffs[p])]
        almost_exact == get_cumulated(cur.children, self_ticks_since_prev)
    IN
    IF overflow_checks /\ \E p \in DOMAIN almost_exact : almost_exact[p] >= Modulus
    THEN Panicked
    ELSE
    LET almost_ticks == [p \in DOMAIN almost_exact |-> WrapU64(almost_exact[p])]
        prev_children == IF prevO = <<>> THEN <<>> ELSE prevO[1].children
        killed == get_cumulated(prev_children, KilledValue(prevO, read))
    IN  [panic |-> FALSE,
         cur |-> cur,
         ticks |-> [p \in DOMAIN almost_ticks |->
                      FinalTicks(p, almost_ticks[p], cur, prevO, killed)]]

---------------------------------------------------------------------------
\* SpecPure: measure_pid_ticks on every pair (prev, /proc contents) within
\* the bounds.

StatRec(ok, ppid, self, reaped) ==
    [stat_ok |-> ok, ppid |-> ppid, utime_stime |-> self, cutime_cstime |-> reaped]

RECURSIVE Ancestors(_, _, _)
\* the pids reached from p by following ppid at most n times
Ancestors(tab, p, n) ==
    IF n = 0 \/ p \notin DOMAIN tab \/ tab[p].ppid = 0 THEN {}
    ELSE {tab[p].ppid} \cup Ancestors(tab, tab[p].ppid, n - 1)

\* a process table of the kernel: every parent exists, no cycles
IsProcTable(tab) ==
    \A p \in DOMAIN tab :
        /\ tab[p].ppid \in DOMAIN tab \cup {0}
        /\ p \notin Ancestors(tab, p, Cardinality(DOMAIN tab))

StatRecs ==
    {StatRec(FALSE, 0, 0, 0)} \cup
    {StatRec(TRUE, pp, s, r) : pp \in 0..MaxPid, s \in 0..MaxTicks, r \in 0..MaxTicks}

\* what one enumeration of /proc can yield (stat reads may fail)
ProcTables ==
    UNION {{t \in [S -> StatRecs] : IsProcTable(t)} : S \in SUBSET Pids}

\* the samples an earlier call can have returned.  measure_pid_ticks commutes
\* with a renaming of the pids, so prev is taken with every parent numbered
\* below its children; the current /proc contents are arbitrary.
PrevSamples ==
    {<<>>} \cup
    {<<measure_pid_ticks(<<>>, t, FALSE).cur>> :
        t \in {u \in ProcTables :
                 \A p \in DOMAIN u : u[p].stat_ok /\ u[p].ppid < p}}

\* the variables of the other specifications, parked
LifeIdle ==
    /\ kproc = <<>> /\ next_pid = 0 /\ kprev = <<>>
    /\ interval_ticks = <<>> /\ sampled = <<>>
PureIdle == procfs = <<>> /\ prev = <<>> /\ out = <<>>
ServIdle ==
    /\ clock = 0 /\ s_pc = "dead" /\ s_prev = <<>>
    /\ ch_buf = <<>> /\ ch_tail = 0 /\ ch_closed = TRUE /\ published = <<>>
    /\ handler = <<>> /\ shutdown_by = {}

ClientIdle == client = <<>> /\ now = 0
FnIdle == fn_in = <<>> /\ fn_out = <<>>

InitPure ==
    /\ procfs \in ProcTables
    /\ prev \in PrevSamples
    /\ out = <<>>
    /\ LifeIdle /\ ServIdle /\ ClientIdle /\ FnIdle

MeasurePure ==
    /\ out = <<>>
    /\ \E overflow_checks \in BOOLEAN :
           out' = <<measure_pid_ticks(prev, procfs, overflow_checks)>>
    /\ UNCHANGED <<procfs, prev>>
    /\ UNCHANGED <<lifeVars, servVars, clientVars, fnVars>>

NextPure == MeasurePure

SpecPure == InitPure /\ [][NextPure]_vars

---------------------------------------------------------------------------
\* Vocabulary of the claims about measure_pid_ticks, defined on sets
\* (independently of the memoised recursion).

RECURSIVE SumOver(_, _)
SumOver(S, f) ==
    IF S = {} THEN 0
    ELSE LET x == CHOOSE y \in S : TRUE IN f[x] + SumOver(S \ {x}, f)

\* the child relation of an adjacency map
ChildrenSet(children, k) ==
    IF k \in DOMAIN children
    THEN {children[k][i] : i \in 1..Len(children[k])} ELSE {}

RECURSIVE Reach(_, _, _)
\* the pids reached from the set S in at most n steps down the adjacency
Reach(children, S, n) ==
    IF n = 0 THEN S
    ELSE Reach(children, S \cup UNION {ChildrenSet(children, k) : k \in S}, n - 1)

\* subtree(p): p and every transitive descendant
Subtree(children, p) == Reach(children, {p}, Cardinality(DOMAIN children))

PrevPids(prevO) == IF prevO = <<>> THEN {} ELSE DOMAIN prevO[1].pids
PrevSelf(prevO, d) ==
    IF d \in PrevPids(prevO) THEN prevO[1].pids[d].total_self_ticks ELSE 0
PrevReaped(prevO, p) ==
    IF p \in PrevPids(prevO) THEN prevO[1].pids[p].cumulated_total_subtree_ticks ELSE 0
PrevSubtree(prevO, p) ==
    IF p \in PrevPids(prevO) THEN Subtree(prevO[1].children, p) ELSE {}

\* tick_delta(p) as spec section 4.1 states it, for a finalised cur
TickDeltaFormula(prevO, cur, p) ==
    LET sub == Subtree(cur.children, p)
        alive_subtree_delta ==
            SumOver(sub, [d \in sub |-> cur.pids[d].total_self_ticks - PrevSelf(prevO, d)])
        reaped_delta ==
            cur.pids[p].cumulated_total_subtree_ticks - PrevReaped(prevO, p)
        dying == PrevSubtree(prevO, p) \ DOMAIN cur.pids
        pre_prev_ticks_of_dying == SumOver(dying, [d \in dying |-> PrevSelf(prevO, d)])
    IN  alive_subtree_delta + reaped_delta - pre_prev_ticks_of_dying

\* every stat read succeeded (so every parent named was read as well)
AllRead(tab) == \A p \in DOMAIN tab : tab[p].stat_ok

\* cur.self >= prev.self for every pid in both snapshots
SelfMonotone(prevO, tab) ==
    \A p \in Samples(tab) \cap PrevPids(prevO) :
        tab[p].utime_stime >= PrevSelf(prevO, p)

\* the since-boot subtree total of p from the raw stat records
SinceBootTotal(tab, p) ==
    LET sub == {d \in DOMAIN tab : d = p \/ p \in Ancestors(tab, d, Cardinality(DOMAIN tab))}
    IN  SumOver(sub, [d \in sub |-> tab[d].utime_stime + tab[d].cutime_cstime])

Measured == out # <<>>

---------------------------------------------------------------------------
\* C2: for well-formed snapshots (every stat read, self ticks not decreasing)
\* measure_pid_ticks completes, its result has exactly the pids of cur as
\* keys, every value is alive_subtree_delta + reaped_delta -
\* pre_prev_ticks_of_dying, and without prev it is the since-boot subtree
\* total (cumulated self ticks plus cumulated reaped ticks).
C2_TickDeltaFormula ==
    (Measured /\ AllRead(procfs) /\ SelfMonotone(prev, procfs)) =>
        /\ ~out[1].panic
        /\ DOMAIN out[1].ticks = DOMAIN procfs
        /\ DOMAIN out[1].cur.pids = DOMAIN procfs
        /\ \A p \in DOMAIN procfs :
              /\ out[1].ticks[p] = TickDeltaFormula(prev, out[1].cur, p)
              /\ prev = <<>> => out[1].ticks[p] = SinceBootTotal(procfs, p)

\* a pid of both snapshots whose prev subtree lost a process that had self
\* ticks, whose reaped ticks grew, and which has a live child that worked
C2_Witness ==
    /\ Measured /\ AllRead(procfs) /\ SelfMonotone(prev, procfs)
    /\ ~out[1].panic
    /\ \E p \in DOMAIN procfs \cap PrevPids(prev) :
          /\ \E d \in PrevSubtree(prev, p) \ DOMAIN procfs : PrevSelf(prev, d) > 0
          /\ out[1].cur.pids[p].cumulated_total_subtree_ticks > PrevReaped(prev, p)
          /\ \E c \in Subtree(out[1].cur.children, p) \ {p} :
                procfs[c].utime_stime > PrevSelf(prev, c)
          /\ out[1].ticks[p] > 0

---------------------------------------------------------------------------
\* C3: when a pid of both snapshots has cur.self < prev.self, the call still
\* completes and every tick_delta is the raw signed value of the formula
\* (the negative difference counted in the pid's own value and in that of
\* each ancestor), with no failure, wrap-around or clamping.
SelfDecreased ==
    \E p \in Samples(procfs) \cap PrevPids(prev) :
        procfs[p].utime_stime < PrevSelf(prev, p)

C3_RawSignedValue ==
    (Measured /\ AllRead(procfs) /\ SelfDecreased) =>
        /\ ~out[1].panic
        /\ \A p \in DOMAIN procfs :
              out[1].ticks[p] = TickDeltaFormula(prev, out[1].cur, p)

\* what does hold: a call that returns, returns the signed values
C3_SignedWhenReturned ==
    (Measured /\ AllRead(procfs) /\ SelfDecreased /\ ~out[1].panic) =>
        \A p \in DOMAIN procfs :
            out[1].ticks[p] = TickDeltaFormula(prev, out[1].cur, p)

---------------------------------------------------------------------------
\* C4: whatever subset of the stat reads fails, the sampling iteration
\* completes and the snapshot is well formed: pids holds exactly the
\* processes whose stat was read, each of them is a key of children, every
\* pid in a child list is a key of children and of pids, no pid is in two
\* child lists, and a process whose parent is missing or zero is a root.
InSomeList(children, c) == \E k \in DOMAIN children : c \in ChildrenSet(children, k)

WellFormedSample(cur, tab) ==
    /\ DOMAIN cur.pids = Samples(tab)
    /\ DOMAIN cur.pids \subseteq DOMAIN cur.children
    /\ \A k \in DOMAIN cur.children :
          /\ ChildrenSet(cur.children, k) \subseteq DOMAIN cur.children \cap DOMAIN cur.pids
          /\ \A i, j \in 1..Len(cur.children[k]) :
                i # j => cur.children[k][i] # cur.children[k][j]
    /\ \A k1, k2 \in DOMAIN cur.children :
          k1 # k2 => ChildrenSet(cur.children, k1) \cap ChildrenSet(cur.children, k2) = {}
    /\ \A p \in DOMAIN cur.pids :
          (tab[p].ppid = 0 \/ tab[p].ppid \notin DOMAIN cur.pids)
              => ~InSomeList(cur.children, p)

C4_StatFailuresSkipped ==
    (Measured /\ SelfMonotone(prev, procfs)) =>
        /\ ~out[1].panic
        /\ WellFormedSample(out[1].cur, procfs)

\* what does hold: failed reads of processes that no process read names as
\* its parent are skipped
C4_SkippedUnlessNamed ==
    (/\ Measured /\ SelfMonotone(prev, procfs)
     /\ \A p \in Samples(procfs) :
           procfs[p].ppid = 0 \/ procfs[p].ppid \in Samples(procfs)) =>
        /\ ~out[1].panic
        /\ WellFormedSample(out[1].cur, procfs)

---------------------------------------------------------------------------
\* Spec: the process lifecycle of the kernel (spec sections 1 and 4.1: fork,
\* ticks, exit with reparenting of the orphans, reaping into the parent's
\* cutime+cstime), read atomically by measure_pid_ticks.  pid 1 is init.

KProc(ppid, self, reaped, zombie) ==
    [stat_ok |-> TRUE, ppid |-> ppid, utime_stime |-> self,
     cutime_cstime |-> reaped, zombie |-> zombie]

KAncestors(p) == Ancestors(kproc, p, Cardinality(DOMAIN kproc))
Running(p) == p \in DOMAIN kproc /\ ~kproc[p].zombie

Init ==
    /\ kproc = (1 :> KProc(0, 0, 0, FALSE))
    /\ next_pid = 2
    /\ kprev = <<>>
    /\ interval_ticks = (1 :> 0)
    /\ sampled = <<>>
    /\ PureIdle /\ ServIdle /\ ClientIdle /\ FnIdle

\* fork(2): a new child of p with a fresh pid
Fork(p) ==
    /\ Running(p)
    /\ next_pid <= MaxLifePid
    /\ kproc' = (next_pid :> KProc(p, 0, 0, FALSE)) @@ kproc
    /\ interval_ticks' = (next_pid :> 0) @@ interval_ticks
    /\ next_pid' = next_pid + 1
    /\ UNCHANGED <<kprev, sampled>>
    /\ UNCHANGED <<pureVars, servVars, clientVars, fnVars>>

\* p runs for one tick (utime + stime grows by one)
Tick(p) ==
    /\ Running(p)
    /\ kproc[p].utime_stime < MaxTicks
    /\ kproc' = [kproc EXCEPT ![p].utime_stime = @ + 1]
    /\ interval_ticks' =
          [q \in DOMAIN interval_ticks |->
              IF q = p \/ q \in KAncestors(p)
              THEN interval_ticks[q] + 1 ELSE interval_ticks[q]]
    /\ UNCHANGED <<next_pid, kprev, sampled>>
    /\ UNCHANGED <<pureVars, servVars, clientVars, fnVars>>

\* p exits: it stays in /proc as a zombie until reaped, and its children are
\* adopted by one of its ancestors (a subreaper, or init)
Exit(p, adopter) ==
    /\ Running(p)
    /\ p # 1
    /\ adopter \in KAncestors(p)
    /\ kproc' = [q \in DOMAIN kproc |->
                    IF q = p THEN [kproc[q] EXCEPT !.zombie = TRUE]
                    ELSE IF kproc[q].ppid = p THEN [kproc[q] EXCEPT !.ppid = adopter]
                    ELSE kproc[q]]
    /\ UNCHANGED <<next_pid, kprev, interval_ticks, sampled>>
    /\ UNCHANGED <<pureVars, servVars, clientVars, fnVars>>

\* the parent waits for its zombie child z: the child's self ticks and its own
\* reaped ticks are added to the parent's cutime + cstime
Reap(z) ==
    /\ z \in DOMAIN kproc
    /\ kproc[z].zombie
    /\ LET parent == kproc[z].ppid
           rest == DOMAIN kproc \ {z}
       IN  /\ kproc' = [q \in rest |->
                          IF q = parent
                          THEN [kproc[q] EXCEPT !.cutime_cstime =
                                   @ + kproc[z].utime_stime + kproc[z].cutime_cstime]
                          ELSE kproc[q]]
           /\ interval_ticks' = [q \in rest |-> interval_ticks[q]]
    /\ UNCHANGED <<next_pid, kprev, sampled>>
    /\ UNCHANGED <<pureVars, servVars, clientVars, fnVars>>

\* one measurement (worker.rs:29, 35): /proc is read atomically, the sample is
\* retained as the next call's prev
Sample ==
    /\ \E overflow_checks \in BOOLEAN :
          LET tab == [p \in DOMAIN kproc |->
                        StatRec(TRUE, kproc[p].ppid, kproc[p].utime_stime,
                                kproc[p].cutime_cstime)]
              r == measure_pid_ticks(kprev, tab, overflow_checks)
          IN  /\ ~r.panic
              /\ kprev' = <<r.cur>>
              /\ sampled' = <<[ticks |-> r.ticks,
                               truth |-> interval_ticks,
                               both |-> DOMAIN kproc \cap PrevPids(kprev)]>>
    /\ interval_ticks' = [q \in DOMAIN kproc |-> 0]
    /\ UNCHANGED <<kproc, next_pid>>
    /\ UNCHANGED <<pureVars, servVars, clientVars, fnVars>>

SomeFork == \E p \in 1..MaxLifePid : Fork(p)
SomeTick == \E p \in 1..MaxLifePid : Tick(p)
SomeExit == \E p, a \in 1..MaxLifePid : Exit(p, a)
SomeReap == \E z \in 1..MaxLifePid : Reap(z)

Next == SomeFork \/ SomeTick \/ SomeExit \/ SomeReap \/ Sample

Spec == Init /\ [][Next]_vars

---------------------------------------------------------------------------
\* C1: for two consecutive samples and every pid p present in both,
\* tick_delta(p) is the number of ticks consumed between the samples by p and
\* its descendants (those reaped in the interval included).
C1_DeltaIsConsumed ==
    sampled # <<>> =>
        \A p \in sampled[1].both : sampled[1].ticks[p] = sampled[1].truth[p]

---------------------------------------------------------------------------
\* SpecServ: Worker::new (the sampler task and the broadcast) and
\* Worker::handle_client, one call per accepted connection.
\* SpecSampler: the sampler task alone, with a wider choice of clock readings
\* and /proc contents.

Handlers == 1..MaxClients

\* broadcast::channel(1), worker.rs:20
Capacity == 1
\* the first reading of times(): the host is older than one tick
FirstReading == 1

\* an f32 load is kept as the fraction it was computed from; x/0 is not finite
\* and 0/0 is NaN (the values of the model are small integers, which `as f32`
\* keeps exactly)
Load(ticks, dt) == [num |-> ticks, den |-> dt]
NaN == Load(0, 0)

\* SpecServ: /proc at the i-th iteration: pid 1 always, which has run by the
\* second iteration, and an idle child 2 at every other iteration
ServTable(i) ==
    LET init == StatRec(TRUE, 0, IF i = 0 THEN 0 ELSE MaxTicks, 0)
    IN  IF i % 2 = 0 THEN (1 :> init)
        ELSE (1 :> init) @@ (2 :> StatRec(TRUE, 1, 0, 0))

\* SpecSampler: the /proc contents the sampler meets
SamplerTables ==
    {(1 :> StatRec(TRUE, 0, a, r)) : a \in 0..MaxTicks, r \in 0..MaxTicks} \cup
    {(1 :> StatRec(TRUE, 0, MaxTicks, 0)) @@ (2 :> StatRec(TRUE, 1, b, 0)) :
        b \in 0..MaxTicks}

\* the pid lists clients send
Requests == {<<2, 1>>, <<1, 1>>}

\* worker.rs:27: current_ticks - prev.t, or - 0 without prev
ElapsedTicks(current_ticks, prevO) ==
    current_ticks - (IF prevO = <<>> THEN 0 ELSE prevO[1].t)

\* worker.rs:28: prev.take().map(|(_t, loads)| loads)
JustPrev(prevO) == IF prevO = <<>> THEN <<>> ELSE <<prevO[1].sample>>

\* worker.rs:30-33: every tick count divided by dt
LoadsOf(ticks, dt) == [p \in DOMAIN ticks |-> Load(ticks[p], dt)]

\* broadcast: the oldest position still retained
Oldest == IF ch_tail > Len(ch_buf) THEN ch_tail - Len(ch_buf) ELSE 0
\* broadcast: the value sent at position pos (0-based), if retained
ValueAt(pos) == ch_buf[pos - Oldest + 1]

\* broadcast send with room for two values
SendBufTwo(buf, v) ==
    LET all == Append(buf, v)
    IN  IF Len(all) > 2 THEN SubSeq(all, Len(all) - 1, Len(all)) ELSE all

\* broadcast send (worker.rs:20, 34): never waits; drops the oldest when full
SendBuf(buf, v) ==
    LET all == Append(buf, v)
    IN  IF Len(all) > Capacity THEN SubSeq(all, Len(all) - Capacity + 1, Len(all))
        ELSE all

IdleHandler ==
    [pc |-> "idle", input |-> <<>>, pids |-> <<>>, read_end |-> "none",
     next |-> 0, loads |-> <<>>, pid_loads |-> <<>>, written |-> 0,
     worker_failed |-> FALSE, left_by |-> "none", lagged |-> FALSE,
     frames |-> 0]

InitSampler ==
    /\ clock = FirstReading
    /\ s_pc = "run"
    /\ s_prev = <<>>
    /\ ch_buf = <<>>
    /\ ch_tail = 0
    /\ ch_closed = FALSE
    /\ published = <<>>
    /\ handler = [h \in Handlers |-> IdleHandler]
    /\ shutdown_by = {}
    /\ PureIdle /\ LifeIdle /\ ClientIdle /\ FnIdle

InitServ == InitSampler

\* worker.rs:25-35: one iteration of the loop up to the send; nothing in it
\* awaits.  current_ticks is what times() returns, tab what /proc holds.
Iteration(current_ticks, tab) ==
    /\ s_pc = "run"
    /\ ch_tail < MaxIter
    /\ \E overflow_checks \in BOOLEAN :
          LET dt == ElapsedTicks(current_ticks, s_prev)
              r == measure_pid_ticks(JustPrev(s_prev), tab, overflow_checks)
              loads == [seq |-> ch_tail, loads |-> LoadsOf(r.ticks, dt)]
          IN  /\ ~r.panic
              /\ ch_buf' = SendBuf(ch_buf, loads)
              /\ ch_tail' = ch_tail + 1
              /\ s_prev' = <<[t |-> current_ticks, sample |-> r.cur]>>
              /\ clock' = current_ticks
              /\ published' =
                    <<[t |-> current_ticks,
                       prev_t |-> IF published = <<>> THEN <<>> ELSE <<published[1].t>>,
                       tab |-> tab,
                       prev_tab |-> IF published = <<>> THEN <<>> ELSE <<published[1].tab>>,
                       ticks |-> r.ticks,
                       loads |-> loads]>>
    /\ s_pc' = "sleep"
    /\ UNCHANGED <<ch_closed, handler, shutdown_by>>
    /\ UNCHANGED <<pureVars, lifeVars, clientVars, fnVars>>

\* SpecServ: the clock advances by one tick per iteration
Publish == Iteration(clock + 1, ServTable(ch_tail))

\* SpecSampler: the clock advances by 0..MaxClockStep ticks
PublishAny ==
    \E current_ticks \in clock..(clock + MaxClockStep), tab \in SamplerTables :
        Iteration(current_ticks, tab)

\* worker.rs:36: sleep_until(next_sample_at) returns
Wake ==
    /\ s_pc = "sleep"
    /\ s_pc' = "run"
    /\ UNCHANGED <<clock, s_prev, ch_buf, ch_tail, ch_closed, published,
                   handler, shutdown_by>>
    /\ UNCHANGED <<pureVars, lifeVars, clientVars, fnVars>>

\* worker.rs:26, 112 and the panics inside measure_pid_ticks: the task ends
\* and drops the sender, which closes the broadcast
SamplerDies ==
    /\ s_pc = "run"
    /\ s_pc' = "dead"
    /\ ch_closed' = TRUE
    /\ UNCHANGED <<clock, s_prev, ch_buf, ch_tail, published, handler, shutdown_by>>
    /\ UNCHANGED <<pureVars, lifeVars, clientVars, fnVars>>

HandlerStep(h, rec) ==
    /\ handler' = [handler EXCEPT ![h] = rec]
    /\ UNCHANGED <<samplerVars, shutdown_by>>
    /\ UNCHANGED <<pureVars, lifeVars, clientVars, fnVars>>

\* worker.rs:43: a connection is accepted and the handler resubscribes; the
\* client will send the pid list req.  Connections are numbered in the order
\* they are accepted.
Accept(h, req) ==
    /\ handler[h].pc = "idle"
    /\ \A g \in Handlers : g < h => handler[g].pc # "idle"
    /\ HandlerStep(h, [handler[h] EXCEPT !.pc = "read", !.input = req,
                                         !.next = ch_tail])

\* worker.rs:48: read_i32 returns a pid
ReadPid(h) ==
    /\ handler[h].pc = "read"
    /\ handler[h].input # <<>>
    /\ HandlerStep(h, [handler[h] EXCEPT !.pids = Append(@, Head(handler[h].input)),
                                         !.input = Tail(@)])

\* worker.rs:48-51: read_i32 fails and .ok() ends the list, whatever the
\* error: kind "eof" is the end of the stream on a pid boundary, kind "error"
\* any other failure (connection reset, stream ending inside a pid)
ReadEnd(h, kind) ==
    /\ handler[h].pc = "read"
    /\ kind = "eof" => handler[h].input = <<>>
    /\ HandlerStep(h, [handler[h] EXCEPT !.pc = "recv", !.read_end = kind,
                                         !.input = <<>>])

\* worker.rs:59-61
pid_loads(pids, loads) ==
    [i \in 1..Len(pids) |->
        IF pids[i] \in DOMAIN loads THEN loads[pids[i]] ELSE NaN]

\* worker.rs:54-55, 59-62: recv returns the next value and the frame is built
RecvOk(h) ==
    /\ handler[h].pc = "recv"
    /\ handler[h].next < ch_tail
    /\ handler[h].next >= Oldest
    /\ LET loads == ValueAt(handler[h].next)
       IN  HandlerStep(h, [handler[h] EXCEPT
                !.next = @ + 1,
                !.loads = <<loads>>,
                !.pid_loads = pid_loads(handler[h].pids, loads.loads),
                !.written = 0,
                !.pc = IF handler[h].pids = <<>> THEN "flush" ELSE "write"])

\* worker.rs:56: the value at the receiver's position was overwritten; the
\* receiver is moved to the oldest retained value and the loop continues
RecvLagged(h) ==
    /\ handler[h].pc = "recv"
    /\ handler[h].next < Oldest
    /\ HandlerStep(h, [handler[h] EXCEPT !.next = Oldest, !.lagged = TRUE])

\* leaving the serving loop (break 'serving): the frame's values are dropped
Leave(rec, failed, why) ==
    [rec EXCEPT !.pc = "shutdown", !.worker_failed = failed, !.left_by = why,
                !.loads = <<>>, !.pid_loads = <<>>, !.written = 0,
                !.lagged = FALSE]

\* worker.rs:57: nothing left to receive and the sender is gone
RecvClosed(h) ==
    /\ handler[h].pc = "recv"
    /\ handler[h].next = ch_tail
    /\ ch_closed
    /\ HandlerStep(h, Leave(handler[h], TRUE, "closed"))

\* worker.rs:63-64: one write_f32 succeeds
WriteOk(h) ==
    /\ handler[h].pc = "write"
    /\ HandlerStep(h, [handler[h] EXCEPT
            !.written = @ + 1,
            !.pc = IF handler[h].written + 1 = Len(handler[h].pid_loads)
                   THEN "flush" ELSE "write"])

\* a write error taken for a failure of the worker
WriteErrFatal(h) ==
    /\ handler[h].pc = "write"
    /\ HandlerStep(h, Leave(handler[h], TRUE, "write_error"))

\* worker.rs:64-67
WriteErr(h) ==
    /\ handler[h].pc = "write"
    /\ HandlerStep(h, Leave(handler[h], FALSE, "write_error"))

\* worker.rs:69: the flush succeeds, the frame is complete and the loop
\* starts over
FlushOk(h) ==
    /\ handler[h].pc = "flush"
    /\ HandlerStep(h, [handler[h] EXCEPT
            !.pc = "recv", !.frames = @ + 1,
            !.loads = <<>>, !.pid_loads = <<>>, !.written = 0, !.lagged = FALSE])

\* worker.rs:69-72
FlushErr(h) ==
    /\ handler[h].pc = "flush"
    /\ HandlerStep(h, Leave(handler[h], FALSE, "flush_error"))

\* worker.rs:74-77: stream.shutdown(), its error only logged
StreamShutdown(h) ==
    /\ handler[h].pc = "shutdown"
    /\ HandlerStep(h, [handler[h] EXCEPT
            !.pc = IF handler[h].worker_failed THEN "ctrl" ELSE "done"])

\* worker.rs:78: self.ctrl.shutdown()
CtrlShutdown(h) ==
    /\ handler[h].pc = "ctrl"
    /\ handler' = [handler EXCEPT ![h].pc = "done"]
    /\ shutdown_by' = shutdown_by \cup {h}
    /\ UNCHANGED samplerVars
    /\ UNCHANGED <<pureVars, lifeVars, clientVars, fnVars>>

SomeAccept == \E h \in Handlers, req \in Requests : Accept(h, req)
SomeReadPid == \E h \in Handlers : ReadPid(h)
SomeReadEnd == \E h \in Handlers, kind \in {"eof", "error"} : ReadEnd(h, kind)
SomeRecvOk == \E h \in Handlers : RecvOk(h)
SomeRecvLagged == \E h \in Handlers : RecvLagged(h)
SomeRecvClosed == \E h \in Handlers : RecvClosed(h)
SomeWriteOk == \E h \in Handlers : WriteOk(h)
SomeWriteErr == \E h \in Handlers : WriteErr(h)
SomeFlushOk == \E h \in Handlers : FlushOk(h)
SomeFlushErr == \E h \in Handlers : FlushErr(h)
SomeStreamShutdown == \E h \in Handlers : StreamShutdown(h)
SomeCtrlShutdown == \E h \in Handlers : CtrlShutdown(h)

HandlerNext ==
    \/ SomeReadPid \/ SomeReadEnd
    \/ SomeRecvOk \/ SomeRecvLagged \/ SomeRecvClosed
    \/ SomeWriteOk \/ SomeWriteErr \/ SomeFlushOk \/ SomeFlushErr
    \/ SomeStreamShutdown \/ SomeCtrlShutdown

NextServ == Publish \/ Wake \/ SamplerDies \/ SomeAccept \/ HandlerNext

SpecServ == InitServ /\ [][NextServ]_vars

NextSampler == PublishAny \/ Wake \/ SamplerDies

SpecSampler == InitSampler /\ [][NextSampler]_vars

---------------------------------------------------------------------------
\* Claims about the sampling loop (SpecSampler)

\* the tick reading of the iteration before the last one, 0 when there was none
PrevReading(e) == IF e.prev_t = <<>> THEN 0 ELSE e.prev_t[1]

\* C5: every published load is the iteration's tick_delta divided by (this
\* reading - previous reading), and whenever that difference is zero (no
\* previous iteration, or the same reading twice) by the current reading
\* instead, so that no load map is published with a zero divisor.
C5_NoZeroDivisor ==
    published # <<>> =>
        LET e == published[1]
            diff == IF e.prev_t = <<>> THEN 0 ELSE e.t - e.prev_t[1]
            divisor == IF diff = 0 THEN e.t ELSE diff
        IN  /\ divisor # 0
            /\ DOMAIN e.loads.loads = DOMAIN e.ticks
            /\ \A p \in DOMAIN e.ticks : e.loads.loads[p] = Load(e.ticks[p], divisor)

\* C5, what the loop does: the divisor is always this reading minus the
\* previous one, with 0 standing for the reading of an absent previous
\* iteration, and the previous reading is the one of the iteration before.
C5_DivisorIsElapsed ==
    published # <<>> =>
        LET e == published[1]
        IN  /\ s_prev # <<>> /\ s_prev[1].t = e.t
            /\ \A p \in DOMAIN e.ticks :
                  e.loads.loads[p] = Load(e.ticks[p], e.t - PrevReading(e))

\* C5: a second iteration read the same tick value as the first
C5_SameReadingTwice ==
    /\ published # <<>>
    /\ published[1].prev_t = <<published[1].t>>
    /\ \E p \in DOMAIN published[1].loads.loads : published[1].loads.loads[p].den = 0

---------------------------------------------------------------------------
\* Claims about the handlers and the broadcast (SpecServ)

Serving(h) == handler[h].pc \in {"recv", "write", "flush"}
InFrame(h) == handler[h].pc \in {"write", "flush"}
Returned(h) == handler[h].pc = "done"

\* the value of pid in a load map, NaN when absent
EntryOrNaN(map, pid) == IF pid \in DOMAIN map THEN map[pid] ELSE NaN

\* the frame a handler is writing holds, position by position, the entries of
\* the one map it received for the pids in the order they were read; values
\* are written one by one and the flush comes after the last one
FrameOfOneMap(h) ==
    LET r == handler[h]
    IN  InFrame(h) =>
            /\ Len(r.loads) = 1
            /\ Len(r.pid_loads) = Len(r.pids)
            /\ \A i \in 1..Len(r.pids) :
                  r.pid_loads[i] = EntryOrNaN(r.loads[1].loads, r.pids[i])
            /\ r.written <= Len(r.pids)
            /\ r.pc = "flush" => r.written = Len(r.pids)
            /\ r.pc = "write" => r.written < Len(r.pids)

\* outside a frame nothing of a map is kept, so that the next frame starts
\* from the next received map
NothingPending(h) ==
    ~InFrame(h) => handler[h].loads = <<>> /\ handler[h].pid_loads = <<>>
                   /\ handler[h].written = 0

\* C6: once the pid list has been read up to EOF the handler writes, for each
\* map received, one frame holding one value per pid in the order received
\* (the entry of that single map, or NaN), then flushes; and no frame is
\* written unless EOF was seen on the read half.
C6_OneFramePerMap ==
    \A h \in Handlers :
        /\ FrameOfOneMap(h)
        /\ NothingPending(h)
        /\ (InFrame(h) \/ handler[h].frames > 0) => handler[h].read_end = "eof"

\* C6, what the handler does: the same frames, written once the reading of
\* the pid list has ended, by EOF or by any read error.
C6_OneFramePerMapAfterListEnd ==
    \A h \in Handlers :
        /\ FrameOfOneMap(h)
        /\ NothingPending(h)
        /\ (InFrame(h) \/ handler[h].frames > 0) => handler[h].read_end # "none"

\* C6: a frame with a repeated pid and one with an absent pid are being flushed
C6_FrameWritten ==
    \E h \in Handlers :
        /\ handler[h].pc = "flush"
        /\ handler[h].read_end = "eof"
        /\ Len(handler[h].pids) = 2
        /\ \/ handler[h].pids[1] = handler[h].pids[2]
           \/ NaN \in {handler[h].pid_loads[i] : i \in 1..2}

\* C7, as a step: a lag indication leaves the handler waiting in the loop
\* with no frame written and moves it to the newest publication; a received
\* map is always the newest one published, and the handler then waits for
\* the publication right after it.
LagStep(h) ==
    (~handler[h].lagged /\ handler'[h].lagged) =>
        /\ handler[h].pc = "recv" /\ handler'[h].pc = "recv"
        /\ handler'[h].frames = handler[h].frames
        /\ handler'[h].written = 0
        /\ handler'[h].next = ch_tail - 1
        /\ UNCHANGED <<samplerVars, shutdown_by>>
ReceiveStep(h) ==
    (handler[h].pc = "recv" /\ InFrame(h)') =>
        /\ handler'[h].loads = <<published[1].loads>>
        /\ handler'[h].loads[1].seq = ch_tail - 1
        /\ handler'[h].next = ch_tail

\* C7, as a step: a publication replaces the retained map and involves no
\* handler, whatever the handlers have received so far.
PublishStep ==
    ch_tail' # ch_tail =>
        /\ s_pc = "run" /\ ch_tail' = ch_tail + 1
        /\ ch_buf' = <<published'[1].loads>>
        /\ published'[1].loads.seq = ch_tail
        /\ handler' = handler

\* C7: the broadcast retains at most one load map and publishing never waits
\* for a subscriber; a handler that fell behind gets a lag indication, writes
\* no frame for it, stays connected, builds its next frame from the most
\* recently published map and goes on with the publications after it.
C7_LagResumesFromNewest ==
    /\ [](/\ Len(ch_buf) <= 1
          /\ ch_buf # <<>> => ch_buf[1] = published[1].loads
          /\ \A h \in Handlers :
                /\ handler[h].lagged => Serving(h)
                /\ InFrame(h) => handler[h].next = handler[h].loads[1].seq + 1)
    /\ [][PublishStep /\ \A h \in Handlers : LagStep(h) /\ ReceiveStep(h)]_vars

\* C7: a handler missed two publications, was told so, and is flushing the
\* frame built from the third
C7_Witness ==
    \E h \in Handlers :
        /\ handler[h].lagged
        /\ handler[h].pc = "flush"
        /\ handler[h].frames = 0
        /\ handler[h].loads[1].seq = 2
        /\ ch_tail = 3

\* C8: after the sampler task has died the broadcast is closed, every handler
\* returns and daemon shutdown is requested, with or without a client.  In a
\* state where the task is dead and no handler has a step left, nothing more
\* happens by itself, so the request must already have been made.
C8_ShutdownAfterSamplerDeath ==
    (s_pc = "dead" /\ \A h \in Handlers : handler[h].pc \in {"idle", "done"})
        => (ch_closed /\ shutdown_by # {})

\* C8, what the handlers do: the broadcast is closed, and shutdown is
\* requested exactly by the handlers that saw it closed.
C8_ShutdownBySeeingClosed ==
    /\ s_pc = "dead" <=> ch_closed
    /\ \A h \in Handlers :
          (Returned(h) /\ handler[h].left_by = "closed") => h \in shutdown_by

\* C9, as a step: the step in which a handler meets a write or flush error
\* changes nothing but that handler.
ErrorStep(h) ==
    (handler[h].left_by = "none" /\ handler'[h].left_by \in {"write_error", "flush_error"}) =>
        /\ InFrame(h)
        /\ handler'[h].pc = "shutdown"
        /\ \A g \in Handlers \ {h} : handler'[g] = handler[g]
        /\ UNCHANGED <<samplerVars, shutdown_by>>

\* C9: a write or flush error ends only that connection: the handler stops
\* serving, shuts its stream down and returns without requesting daemon
\* shutdown, the sampler and the other handlers being left alone; a handler
\* requests shutdown if and only if it left the loop on a closed broadcast.
C9_WriteErrorEndsOneConnection ==
    /\ [](\A h \in Handlers :
            /\ handler[h].left_by \in {"write_error", "flush_error"} =>
                  /\ handler[h].pc \in {"shutdown", "done"}
                  /\ ~handler[h].worker_failed
                  /\ h \notin shutdown_by
            /\ handler[h].worker_failed <=> handler[h].left_by = "closed"
            /\ handler[h].pc = "ctrl" => handler[h].left_by = "closed"
            /\ h \in shutdown_by => Returned(h)
            /\ Returned(h) => (h \in shutdown_by <=> handler[h].left_by = "closed"))
    /\ [][\A h \in Handlers : ErrorStep(h)]_vars

\* C9: one handler has returned after a write error while the sampler runs
\* and another handler is in the middle of its second frame
C9_Witness ==
    \E h, g \in Handlers :
        /\ h # g
        /\ Returned(h) /\ handler[h].left_by = "write_error"
        /\ InFrame(g) /\ handler[g].frames > 0
        /\ s_pc # "dead"
        /\ shutdown_by = {}

\* C10: a read error while the pid list is received closes the connection
\* without any frame being served; only EOF on a pid boundary opens the
\* serving loop.
C10_ReadErrorClosesConnection ==
    \A h \in Handlers :
        handler[h].read_end = "error" => ~Serving(h) /\ handler[h].frames = 0

\* C10, what the handler does: any end of the reading opens the serving loop.
C10_AnyEndOpensServing ==
    \A h \in Handlers :
        (Serving(h) \/ handler[h].frames > 0) => handler[h].read_end \in {"eof", "error"}

---------------------------------------------------------------------------
\* SpecClient: client::run (client.rs:14-51) on a connected stream.  The
\* server side of the stream delivers floats one by one and may end or fail
\* at any point.  now is the time since the deadline was computed
\* (client.rs:40).

\* client.rs:16-17 and the locals of run.  chunk is what loads_stream.next()
\* returned: <<>> or <<[len, done_at]>>.  Kept about the lines printed:
\*   printed_any, delivered_any  a line was printed / a whole frame arrived
\*   late       printed frames that were completed past the deadline (2: two or more)
\*   short_line a printed line had fewer loads than pids requested
\*   last_done_at, last_check_at  of the last line: when its chunk was
\*              completed, when the deadline was tested after printing it
\*   stopped_by "deadline" (break), "end" (the stream is exhausted)
NewClient(n, timeout) ==
    [pc |-> "start", n |-> n, timeout |-> timeout, deadline |-> <<>>,
     items |-> 0, ended |-> FALSE, chunk |-> <<>>, result |-> "none",
     printed_any |-> FALSE, delivered_any |-> FALSE, late |-> 0,
     short_line |-> FALSE, last_done_at |-> 0, last_check_at |-> 0,
     stopped_by |-> "none"]

Timeouts == {<<>>} \cup {<<k>> : k \in 0..MaxTimeout}

InitClient ==
    /\ client \in {NewClient(n, timeout) : n \in 1..MaxReq, timeout \in Timeouts}
    /\ now = 0
    /\ PureIdle /\ LifeIdle /\ ServIdle /\ FnIdle

ClientStep(rec) ==
    /\ client' = rec
    /\ UNCHANGED now
    /\ UNCHANGED <<pureVars, lifeVars, servVars, fnVars>>

\* time passes while run is in its loop
TimePasses ==
    /\ client.pc \notin {"start", "done"}
    /\ now < MaxTime
    /\ now' = now + 1
    /\ UNCHANGED client
    /\ UNCHANGED <<pureVars, lifeVars, servVars, fnVars>>

\* client.rs:21-40: the pids are written, the stream flushed and shut down
\* for writing, the deadline computed
StartOk ==
    /\ client.pc = "start"
    /\ ClientStep([client EXCEPT
          !.pc = "next",
          !.deadline = IF client.timeout = <<>> THEN <<>>
                       ELSE <<now + client.timeout[1]>>])

\* client.rs:25, 30, 34: one of the writes fails and run returns Err
StartErr ==
    /\ client.pc = "start"
    /\ ClientStep([client EXCEPT !.pc = "done", !.result = "err"])

\* the last frame never passes the deadline
DeadlineNever(t, deadline) == FALSE

\* client.rs:46: deadline.is_some_and(|d| Instant::now() > d)
DeadlinePassed(t, deadline) == deadline # <<>> /\ t > deadline[1]

\* client.rs:36, 38: read_f32 returns a load; the chunk is handed out when it
\* holds pids.len() loads
RecvFloat ==
    /\ client.pc = "next"
    /\ ~client.ended
    /\ IF client.items + 1 = client.n
       THEN ClientStep([client EXCEPT
                !.items = 0, !.pc = "print", !.delivered_any = TRUE,
                !.chunk = <<[len |-> client.n, done_at |-> now]>>])
       ELSE ClientStep([client EXCEPT !.items = @ + 1])

\* client.rs:36, 38: read_f32 fails (end of stream or any error) and .ok()
\* ends the stream of loads; chunks hands out what it has collected, if
\* anything, before it ends
StreamEnd ==
    /\ client.pc = "next"
    /\ ~client.ended
    /\ IF client.items > 0
       THEN ClientStep([client EXCEPT
                !.ended = TRUE, !.items = 0, !.pc = "print",
                !.chunk = <<[len |-> client.items, done_at |-> now]>>])
       ELSE ClientStep([client EXCEPT
                !.ended = TRUE, !.pc = "done", !.result = "ok",
                !.stopped_by = "end"])

\* client.rs:41, 50: next() returns None after the last chunk
LoopEnd ==
    /\ client.pc = "next"
    /\ client.ended
    /\ ClientStep([client EXCEPT !.pc = "done", !.result = "ok",
                                 !.stopped_by = "end"])

\* client.rs:42-45: println!
PrintLine ==
    /\ client.pc = "print"
    /\ LET c == client.chunk[1]
           is_late == c.len = client.n /\ client.deadline # <<>>
                      /\ c.done_at > client.deadline[1]
       IN  ClientStep([client EXCEPT
                !.pc = "check", !.chunk = <<>>,
                !.printed_any = TRUE,
                !.short_line = @ \/ c.len < client.n,
                !.late = IF is_late /\ @ < 2 THEN @ + 1 ELSE @,
                !.last_done_at = c.done_at])

\* client.rs:46-48
CheckDeadline ==
    /\ client.pc = "check"
    /\ IF DeadlinePassed(now, client.deadline)
       THEN ClientStep([client EXCEPT !.pc = "done", !.result = "ok",
                                      !.stopped_by = "deadline",
                                      !.last_check_at = now])
       ELSE ClientStep([client EXCEPT !.pc = "next", !.last_check_at = now])

ClientOwnNext == StartOk \/ LoopEnd \/ PrintLine \/ CheckDeadline

NextClient ==
    TimePasses \/ StartOk \/ StartErr \/ RecvFloat \/ StreamEnd
        \/ LoopEnd \/ PrintLine \/ CheckDeadline

SpecClient == InitClient /\ [][NextClient]_vars

\* the client takes its steps, time passes, and a live server goes on
\* delivering loads (the sampling loop publishes at every interval) until it
\* closes the stream
SpecClientLive ==
    /\ SpecClient
    /\ WF_vars(ClientOwnNext)
    /\ WF_vars(TimePasses)
    /\ WF_vars(RecvFloat)

---------------------------------------------------------------------------
\* Claims about client::run

InLoop == client.pc \in {"next", "print", "check"}
Finished == client.pc = "done"
Deadline == client.deadline[1]

\* C11, as stated: with a timeout the client prints every frame up to and
\* including the first frame completed past the deadline, then terminates
\* with success; it never prints a second frame completed past the deadline
\* and prints a frame if one is delivered; without a timeout it prints until
\* the stream is closed.  (The part of it that is a state predicate.)
C11_StopsAfterFirstLateFrame ==
    /\ client.result # "err" /\ client.deadline # <<>> =>
          /\ client.late <= 1
          /\ client.stopped_by = "deadline" => client.last_done_at > Deadline
          /\ (Finished /\ client.delivered_any) => client.printed_any
    /\ (client.deadline = <<>> /\ Finished /\ client.result # "err") =>
          client.stopped_by = "end"

\* what the loop guarantees at every moment
ClientLoopInvariant ==
    /\ client.chunk # <<>> <=> client.pc = "print"
    /\ Finished => client.result \in {"ok", "err"}
    /\ client.result = "err" => ~client.printed_any
    /\ (Finished /\ client.result = "ok") =>
          /\ client.stopped_by \in {"deadline", "end"}
          /\ client.stopped_by = "end" => client.ended
          /\ client.items = 0
          /\ client.delivered_any => client.printed_any
    /\ client.deadline = <<>> => client.stopped_by # "deadline"
    /\ client.deadline # <<>> =>
          /\ client.late <= 1
          /\ client.late = 1 => client.pc \in {"check", "done"}
          /\ (client.late = 1 /\ Finished) => client.stopped_by = "deadline"
          /\ client.stopped_by = "deadline" =>
                client.printed_any /\ client.last_check_at > Deadline
          /\ (client.pc \in {"next", "print"} /\ client.printed_any) =>
                client.last_check_at <= Deadline

\* C11: with a timeout the client prints every complete frame until, having
\* printed one, it finds the time past the deadline, and then terminates
\* with success: it stops after the first frame whose printing ends past the
\* deadline (a frame completed past the deadline is always the last one, a
\* frame completed before it can be), it prints a frame if one is delivered,
\* even with timeout 0, and with a live server it terminates once the
\* deadline has passed; without a timeout it prints until the stream ends and
\* then terminates with success.
C11_StopsAfterFirstLateCheck ==
    /\ []ClientLoopInvariant
    /\ (InLoop /\ client.deadline # <<>>) ~> Finished
    /\ (InLoop /\ client.ended) ~> Finished

\* C11: a client with timeout 0 has printed a frame completed past the
\* deadline and stopped on it
C11_Witness ==
    /\ Finished /\ client.stopped_by = "deadline"
    /\ client.timeout = <<0>>
    /\ client.late = 1
    /\ client.last_done_at > Deadline

\* C11: a client stopped by the deadline after a frame that was completed
\* before it
C11_EarlyFrameIsLast ==
    /\ Finished /\ client.stopped_by = "deadline"
    /\ client.last_done_at <= Deadline

---------------------------------------------------------------------------
\* f32 values of the client: the fraction num/den with den > 0, NaN (0/0) or
\* an infinity (x/0), as the server's Load.  Arithmetic is exact: the
\* rounding of f32 and the sign of a zero are not modelled.

F32(num, den) == [num |-> num, den |-> den]
is_nan(x) == x.den = 0 /\ x.num = 0
IsFinite(x) == x.den > 0

\* x + y
F32Add(x, y) ==
    IF is_nan(x) \/ is_nan(y) THEN NaN
    ELSE IF ~IsFinite(x) /\ ~IsFinite(y)
         THEN (IF (x.num > 0) = (y.num > 0) THEN x ELSE NaN)
    ELSE IF ~IsFinite(x) THEN x
    ELSE IF ~IsFinite(y) THEN y
    ELSE F32(x.num * y.den + y.num * x.den, x.den * y.den)

\* x / k and x * k for a positive whole k
F32Div(x, k) == IF IsFinite(x) THEN F32(x.num, x.den * k) ELSE x
F32Mul(x, k) == IF IsFinite(x) THEN F32(x.num * k, x.den) ELSE x

\* x <= y and x < y: false when either side is NaN
F32Le(x, y) ==
    /\ ~is_nan(x) /\ ~is_nan(y)
    /\ IF IsFinite(x) /\ IsFinite(y) THEN x.num * y.den <= y.num * x.den
       ELSE IF ~IsFinite(x) /\ ~IsFinite(y) THEN (x.num < 0 \/ y.num > 0)
       ELSE IF IsFinite(x) THEN y.num > 0 ELSE x.num < 0
F32Lt(x, y) ==
    /\ ~is_nan(x) /\ ~is_nan(y)
    /\ IF IsFinite(x) /\ IsFinite(y) THEN x.num * y.den < y.num * x.den
       ELSE IF ~IsFinite(x) /\ ~IsFinite(y) THEN (x.num < 0 /\ y.num > 0)
       ELSE IF IsFinite(x) THEN y.num > 0 ELSE x.num < 0

RECURSIVE Digits(_, _)
\* the last n decimal digits of k, zero-padded
Digits(k, n) ==
    IF n = 0 THEN "" ELSE Digits(k \div 10, n - 1) \o ToString(k % 10)

\* "{:.N}": decimal notation with N digits after the point, the exact value
\* rounded to the nearest, ties to even
FormatFixed(x, precision) ==
    IF is_nan(x) THEN "NaN"
    ELSE IF ~IsFinite(x) THEN (IF x.num > 0 THEN "inf" ELSE "-inf")
    ELSE LET neg == x.num < 0
             n == (IF neg THEN -x.num ELSE x.num) * 10 ^ precision
             q == n \div x.den
             r == n % x.den
             rounded == IF 2 * r > x.den THEN q + 1
                        ELSE IF 2 * r = x.den THEN q + (q % 2)
                        ELSE q
             whole == ToString(rounded \div 10 ^ precision)
         IN  (IF neg THEN "-" ELSE "")
                 \o whole
                 \o (IF precision = 0 THEN "" ELSE "." \o Digits(rounded, precision))

---------------------------------------------------------------------------
\* config.rs: Field, Source, Scale, Format, Test

Field(source, scale, format) == [source |-> source, scale |-> scale, format |-> format]
Float(precision) == [kind |-> "Float", precision |-> precision]
Percent(precision) == [kind |-> "Percent", precision |-> precision]
IfThenElse(test, then, otherwise) ==
    [kind |-> "IfThenElse", test |-> test, then |-> then, otherwise |-> otherwise]
\* Test::Range(lo, hi): an Option is <<>> or <<value>>
Range(lo, hi) == [lo |-> lo, hi |-> hi]

\* a test that takes the lower bound for met whatever the value
matches_below(test, value) ==
    test.hi = <<>> \/ F32Lt(value, test.hi[1])

\* config.rs:114-120: Test::matches
matches(test, value) ==
    /\ test.lo = <<>> \/ F32Le(test.lo[1], value)
    /\ test.hi = <<>> \/ F32Lt(value, test.hi[1])

---------------------------------------------------------------------------
\* client.rs:55-103: OutputLine::fmt.  The result is the sequence of the
\* write! calls made, each [kind, text] with kind "sep" or "value"; the line
\* is the concatenation of the texts.

\* a load that counts in the sum as it is
nan_as_it_is(l) == l

\* client.rs:60: NaN counts as 0.0
nan_to_zero(l) == IF is_nan(l) THEN F32(0, 1) ELSE l

RECURSIVE sum_of(_, _)
\* client.rs:58-61: .sum(), from the left, starting at 0.0
sum_of(loads, acc) ==
    IF loads = <<>> THEN acc
    ELSE sum_of(Tail(loads), F32Add(acc, nan_to_zero(Head(loads))))

\* client.rs:77-97: the text written for one input
write_value(format, input) ==
    CASE format.kind = "Float" -> FormatFixed(input, format.precision)
      [] format.kind = "Percent" -> FormatFixed(F32Mul(input, 100), format.precision)
      [] format.kind = "IfThenElse" ->
            IF matches(format.test, input) THEN format.then ELSE format.otherwise

RECURSIVE fmt_inputs(_, _, _, _)
\* client.rs:73-99: the loop over the inputs of one field; st is
\* [written, any_written]
fmt_inputs(inputs, format, sep, st) ==
    IF inputs = <<>> THEN st
    ELSE LET with_sep == IF st.any_written
                         THEN Append(st.written, [kind |-> "sep", text |-> sep])
                         ELSE st.written
             value == [kind |-> "value", text |-> write_value(format, Head(inputs))]
         IN  fmt_inputs(Tail(inputs), format, sep,
                        [written |-> Append(with_sep, value), any_written |-> TRUE])

RECURSIVE fmt_fields(_, _, _, _, _, _)
\* client.rs:63-100: the loop over the fields
fmt_fields(spec, sep, num_cores, loads, sum, st) ==
    IF spec = <<>> THEN st
    ELSE LET f == Head(spec)
             scale == IF f.scale = "OfCore" THEN 1 ELSE num_cores
             inputs == IF f.source = "Sum" THEN <<sum>> ELSE loads
             scaled == [i \in 1..Len(inputs) |-> F32Div(inputs[i], scale)]
         IN  fmt_fields(Tail(spec), sep, num_cores, loads, sum,
                        fmt_inputs(scaled, f.format, sep, st))

\* client.rs:56-102
OutputLine(spec, sep, num_cores, loads) ==
    fmt_fields(spec, sep, num_cores, loads, sum_of(loads, F32(0, 1)),
               [written |-> <<>>, any_written |-> FALSE]).written

RECURSIVE TextOf(_)
\* what the write! calls leave in the formatter
TextOf(written) ==
    IF written = <<>> THEN "" ELSE Head(written).text \o TextOf(Tail(written))

---------------------------------------------------------------------------
\* SpecLine: OutputLine::fmt on every line specification and frame within
\* the bounds.

SeqsUpTo(S, n) == UNION {[1..k -> S] : k \in 0..n}

LoadValues == {F32(0, 1), F32(1, 2), F32(3, 2), NaN}
Tests == {Range(<<F32(1, 1)>>, <<>>), Range(<<>>, <<F32(1, 1)>>)}
Formats ==
    {Float(2), Percent(0)} \cup
    {IfThenElse(Range(<<F32(1, 1)>>, <<>>), "x", ""),
     IfThenElse(Range(<<>>, <<F32(1, 1)>>), "x", "y")}
Fields ==
    {Field(source, scale, format) :
        source \in {"Sum", "AllLoads"}, scale \in {"OfCore", "OfTotal"},
        format \in Formats}
Separators == {"", ","}

InitLine ==
    /\ fn_in \in [spec : SeqsUpTo(Fields, MaxFields), sep : Separators,
                  num_cores : 1..MaxCores, loads : SeqsUpTo(LoadValues, MaxLoads)]
    /\ fn_out = <<>>
    /\ PureIdle /\ LifeIdle /\ ServIdle /\ ClientIdle

FormatLine ==
    /\ fn_out = <<>>
    /\ fn_out' = <<OutputLine(fn_in.spec, fn_in.sep, fn_in.num_cores, fn_in.loads)>>
    /\ UNCHANGED fn_in
    /\ UNCHANGED <<pureVars, lifeVars, servVars, clientVars>>

NextLine == FormatLine

SpecLine == InitLine /\ [][NextLine]_vars

---------------------------------------------------------------------------
\* Claims about OutputLine::fmt

\* the sum of the loads that are not NaN, taken over the positions
RECURSIVE SumNotNaN(_, _)
SumNotNaN(loads, I) ==
    IF I = {} THEN F32(0, 1)
    ELSE LET i == CHOOSE j \in I : TRUE
             rest == SumNotNaN(loads, I \ {i})
         IN  IF is_nan(loads[i]) THEN rest ELSE F32Add(rest, loads[i])

\* the values a field stands for
FieldValues(f, num_cores, loads) ==
    LET k == IF f.scale = "OfTotal" THEN num_cores ELSE 1
    IN  IF f.source = "Sum"
        THEN <<F32Div(SumNotNaN(loads, DOMAIN loads), k)>>
        ELSE [i \in DOMAIN loads |-> F32Div(loads[i], k)]

RECURSIVE LineValues(_, _, _)
\* the emitted texts of a line, field after field
LineValues(spec, num_cores, loads) ==
    IF spec = <<>> THEN <<>>
    ELSE LET f == Head(spec)
             vs == FieldValues(f, num_cores, loads)
         IN  [i \in DOMAIN vs |-> write_value(f.format, vs[i])]
                 \o LineValues(Tail(spec), num_cores, loads)

\* C12: the line consists of the values of the fields in field order, one
\* value for a Sum field (the sum of the loads, NaN counted as zero, divided
\* by the core count for the _t scale), one value per load in frame order
\* for an AllLoads field (none for an empty frame, NaN passed through), and
\* the separator stands exactly between consecutive values, never before the
\* first or after the last, also when a value is the empty string.
C12_LineOfValues ==
    fn_out # <<>> =>
        LET written == fn_out[1]
            values == LineValues(fn_in.spec, fn_in.num_cores, fn_in.loads)
        IN  /\ Len(written) = IF values = <<>> THEN 0 ELSE 2 * Len(values) - 1
            /\ \A i \in DOMAIN written :
                  IF i % 2 = 1
                  THEN written[i] = [kind |-> "value", text |-> values[(i + 1) \div 2]]
                  ELSE written[i] = [kind |-> "sep", text |-> fn_in.sep]

\* C12: a line of a Sum field over a frame with a NaN and another load,
\* followed by an AllLoads field that emits an empty string and another text
C12_Witness ==
    /\ fn_out # <<>>
    /\ Len(fn_in.spec) = 2
    /\ fn_in.spec[1].source = "Sum" /\ fn_in.spec[1].scale = "OfTotal"
    /\ fn_in.spec[2].source = "AllLoads"
    /\ fn_in.num_cores = 2
    /\ fn_in.sep = ","
    /\ fn_in.loads = <<NaN, F32(3, 2)>>
    /\ TextOf(fn_out[1]) = "0.75,,x"

---------------------------------------------------------------------------
\* SpecMatch: Test::matches on every range and value within the bounds.

MatchValues ==
    {F32(h, 2) : h \in (-MaxHalves)..MaxHalves} \cup {NaN, F32(1, 0), F32(-1, 0)}
OptionOf(S) == {<<>>} \cup {<<x>> : x \in S}

InitMatch ==
    /\ fn_in \in [lo : OptionOf(MatchValues), hi : OptionOf(MatchValues),
                  value : MatchValues]
    /\ fn_out = <<>>
    /\ PureIdle /\ LifeIdle /\ ServIdle /\ ClientIdle

Match ==
    /\ fn_out = <<>>
    /\ fn_out' = <<matches(Range(fn_in.lo, fn_in.hi), fn_in.value)>>
    /\ UNCHANGED fn_in
    /\ UNCHANGED <<pureVars, lifeVars, servVars, clientVars>>

NextMatch == Match

SpecMatch == InitMatch /\ [][NextMatch]_vars

---------------------------------------------------------------------------
\* Claims about Test::matches

\* the place of a value that is not NaN on the line of halves, the
\* infinities beyond every finite value
HalvesOf(x) ==
    IF x.den = 0 THEN (IF x.num > 0 THEN MaxHalves + 1 ELSE -(MaxHalves + 1))
    ELSE x.num
Ordered(x, y) == ~is_nan(x) /\ ~is_nan(y) /\ HalvesOf(x) <= HalvesOf(y)
StrictlyOrdered(x, y) == ~is_nan(x) /\ ~is_nan(y) /\ HalvesOf(x) < HalvesOf(y)

\* C13: Range(lo, hi).matches(v) is true iff (lo is absent or lo <= v) and
\* (hi is absent or v < hi); so a range without bounds matches every value
\* and a range with lo >= hi matches none.
C13_MatchesIffInRange ==
    fn_out # <<>> =>
        LET lo == fn_in.lo
            hi == fn_in.hi
            v == fn_in.value
        IN  /\ fn_out[1] = TRUE <=>
                  /\ lo = <<>> \/ Ordered(lo[1], v)
                  /\ hi = <<>> \/ StrictlyOrdered(v, hi[1])
            /\ (lo = <<>> /\ hi = <<>>) => fn_out[1] = TRUE
            /\ (lo # <<>> /\ hi # <<>> /\ Ordered(hi[1], lo[1])) => fn_out[1] = FALSE

\* C13: a value equal to the lower bound of a two-sided range is matched
C13_Witness ==
    /\ fn_out = <<TRUE>>
    /\ fn_in.lo = <<F32(2, 2)>> /\ fn_in.value = F32(2, 2) /\ fn_in.hi = <<F32(3, 2)>>

---------------------------------------------------------------------------
\* config.rs:123-236: the parsing of one -f argument.  A text is a sequence
\* of lexemes (names, numerals, free text, ":" and ".."); splitting works on
\* the lexemes, the other string operations on their concatenation.

RECURSIVE Concat(_)
Concat(text) == IF text = <<>> THEN "" ELSE Head(text) \o Concat(Tail(text))

FirstOf(text, lexeme) ==
    LET I == {i \in 1..Len(text) : text[i] = lexeme}
    IN  IF I = {} THEN 0 ELSE CHOOSE i \in I : \A j \in I : i <= j

RECURSIVE splitn(_, _)
\* str::splitn(n, ':'): at most n parts, the last one taking the rest
splitn(text, n) ==
    LET i == FirstOf(text, ":")
    IN  IF n = 1 \/ i = 0 THEN <<text>>
        ELSE <<SubSeq(text, 1, i - 1)>> \o splitn(SubSeq(text, i + 1, Len(text)), n - 1)

ParseError == [ok |-> FALSE]
Parsed(v) == [ok |-> TRUE, value |-> v]

\* str::parse::<f32> on the numerals of the model
Numerals == ("1" :> F32(1, 1)) @@ ("2" :> F32(2, 1))
parse_f32(text) ==
    IF Concat(text) \in DOMAIN Numerals THEN Parsed(Numerals[Concat(text)])
    ELSE ParseError

\* config.rs:218-236: Test::from_str
parse_test(text) ==
    LET i == FirstOf(text, "..")
    IN  IF i = 0 THEN ParseError
        ELSE LET lo == SubSeq(text, 1, i - 1)
                 hi == SubSeq(text, i + 1, Len(text))
                 plo == parse_f32(lo)
                 phi == parse_f32(hi)
             IN  IF lo # <<>> /\ ~plo.ok THEN ParseError
                 ELSE IF hi # <<>> /\ ~phi.ok THEN ParseError
                 ELSE Parsed(Range(IF lo = <<>> THEN <<>> ELSE <<plo.value>>,
                                   IF hi = <<>> THEN <<>> ELSE <<phi.value>>))

\* config.rs:192-216
parse_test_format(format, args) ==
    LET tokens == splitn(args, 3)
        test == IF format = "if_greater"
                THEN LET threshold == parse_f32(tokens[1])
                     IN  IF threshold.ok
                         THEN Parsed(Range(<<threshold.value>>, <<>>))
                         ELSE ParseError
                ELSE parse_test(tokens[1])
    IN  IF ~test.ok THEN ParseError
        ELSE IF Len(tokens) < 2 THEN ParseError
        ELSE Parsed(IfThenElse(test.value, Concat(tokens[2]),
                               IF Len(tokens) < 3 THEN "" ELSE Concat(tokens[3])))

\* config.rs:162-190; ".N" and "%N" are one lexeme each
NumericFormats == (".2" :> Float(2)) @@ ("%0" :> Percent(0))
parse_format(text) ==
    LET tokens == splitn(text, 2)
        field == Concat(tokens[1])
    IN  IF field \in {"if_range", "if_greater"}
        THEN (IF Len(tokens) < 2 THEN ParseError
              ELSE parse_test_format(field, tokens[2]))
        ELSE IF field \in DOMAIN NumericFormats THEN Parsed(NumericFormats[field])
        ELSE ParseError

\* config.rs:123-160: Field::from_str
from_str(text) ==
    LET tokens == splitn(text, 2)
        field == Concat(tokens[1])
    IN  IF field \in {"sum", "all_loads", "sum_t", "all_loads_t"}
        THEN LET source == IF field \in {"sum", "sum_t"} THEN "Sum" ELSE "AllLoads"
                 scale == IF field \in {"sum", "all_loads"} THEN "OfCore" ELSE "OfTotal"
                 format == IF Len(tokens) < 2 THEN Parsed(Float(2))
                           ELSE parse_format(tokens[2])
             IN  IF format.ok THEN Parsed(Field(source, scale, format.value))
                 ELSE ParseError
        ELSE IF field \in {"if_range", "if_greater"}
        THEN (IF Len(tokens) < 2 THEN ParseError
              ELSE LET format == parse_test_format(field, tokens[2])
                   IN  IF format.ok THEN Parsed(Field("Sum", "OfCore", format.value))
                       ELSE ParseError)
        ELSE ParseError

---------------------------------------------------------------------------
\* SpecField: one -f argument holding a test is parsed and a line is
\* formatted with the resulting field.

\* the text of a test field: [name:]if_greater:thr:then[:else] or
\* [name:]if_range:lo..hi:then[:else]
FieldText(a) ==
    (IF a.name = "" THEN <<>> ELSE <<a.name, ":">>)
        \o <<a.test, ":">> \o a.arg
        \o (IF a.then = <<>> THEN <<>> ELSE <<":">> \o a.then)
        \o (IF a.otherwise = <<>> THEN <<>> ELSE <<":">> \o a.otherwise)

TestArgs ==
    [name : {"", "sum", "sum_t", "all_loads"},
     test : {"if_greater"},
     arg : {<<"1">>, <<"x">>},
     then : {<<>>, <<"x">>},
     otherwise : {<<>>, <<"y">>, <<"y", ":", "y">>}]
    \cup
    [name : {"", "all_loads"},
     test : {"if_range"},
     arg : {<<"1", "..", "2">>, <<"..", "2">>, <<"1">>},
     then : {<<"x">>},
     otherwise : {<<>>, <<"y">>}]

FieldLoads == SeqsUpTo({F32(1, 2), F32(2, 2), F32(3, 2), NaN}, MaxLoads)

InitField ==
    /\ fn_in \in [arg : TestArgs, num_cores : 1..MaxCores, loads : FieldLoads]
    /\ fn_out = <<>>
    /\ PureIdle /\ LifeIdle /\ ServIdle /\ ClientIdle

\* Config::parse (the value parser of -f), then OutputLine::fmt for a frame
ParseAndFormat ==
    /\ fn_out = <<>>
    /\ LET field == from_str(FieldText(fn_in.arg))
       IN  fn_out' = <<IF field.ok
                       THEN [ok |-> TRUE, field |-> field.value,
                             written |-> OutputLine(<<field.value>>, " ",
                                                    fn_in.num_cores, fn_in.loads)]
                       ELSE [ok |-> FALSE]>>
    /\ UNCHANGED fn_in
    /\ UNCHANGED <<pureVars, lifeVars, servVars, clientVars>>

NextField == ParseAndFormat

SpecField == InitField /\ [][NextField]_vars

---------------------------------------------------------------------------
\* Claims about if_greater

\* the input is if_greater:thr:then[:else], alone or after a field name,
\* with a numeral for thr
IsIfGreater ==
    /\ fn_in.arg.test = "if_greater"
    /\ Concat(fn_in.arg.arg) \in DOMAIN Numerals
    /\ fn_in.arg.then # <<>>
Threshold == Numerals[Concat(fn_in.arg.arg)]

\* the values of the field named before the test (sum when there is none)
IfGreaterValues ==
    LET name == IF fn_in.arg.name = "" THEN "sum" ELSE fn_in.arg.name
        f == Field(IF name \in {"sum", "sum_t"} THEN "Sum" ELSE "AllLoads",
                   IF name \in {"sum", "all_loads"} THEN "OfCore" ELSE "OfTotal",
                   Float(0))
    IN  FieldValues(f, fn_in.num_cores, fn_in.loads)

EmittedTexts ==
    [i \in 1..((Len(fn_out[1].written) + 1) \div 2) |-> fn_out[1].written[2 * i - 1].text]

\* x > y: false when either side is NaN
StrictlyAbove(x, y) == F32Lt(y, x)

\* C14: if_greater:thr:then[:else] emits `then` only for a value greater
\* than thr and `else` (empty when omitted) for every other value, a value
\* equal to thr included.
C14_ThenOnlyWhenGreater ==
    (fn_out # <<>> /\ IsIfGreater) =>
        /\ fn_out[1].ok
        /\ Len(EmittedTexts) = Len(IfGreaterValues)
        /\ \A i \in DOMAIN IfGreaterValues :
              EmittedTexts[i] =
                  IF StrictlyAbove(IfGreaterValues[i], Threshold)
                  THEN Concat(fn_in.arg.then)
                  ELSE Concat(fn_in.arg.otherwise)

\* C14, what the field does: `then` for a value that is thr or more.
C14_ThenWhenAtLeast ==
    (fn_out # <<>> /\ IsIfGreater) =>
        /\ fn_out[1].ok
        /\ fn_out[1].field.format.test = Range(<<Threshold>>, <<>>)
        /\ Len(EmittedTexts) = Len(IfGreaterValues)
        /\ \A i \in DOMAIN IfGreaterValues :
              EmittedTexts[i] =
                  IF F32Le(Threshold, IfGreaterValues[i])
                  THEN Concat(fn_in.arg.then)
                  ELSE Concat(fn_in.arg.otherwise)

---------------------------------------------------------------------------
\* SpecCumulate: get_cumulated on every acyclic adjacency map and value
\* function within the bounds, then again with the results as values.

\* no id is reached from its own children
IsAcyclic(children) ==
    \A k \in DOMAIN children :
        k \notin Reach(children, ChildrenSet(children, k), Cardinality(DOMAIN children))

AdjacencyMaps ==
    UNION {{children \in [1..n -> {SetToSeq(S) : S \in SUBSET (1..n)}] :
               IsAcyclic(children)} : n \in 1..MaxIds}

InitCumulate ==
    /\ \E children \in AdjacencyMaps :
          fn_in \in [children : {children},
                     value : [DOMAIN children -> (-MaxValue)..MaxValue]]
    /\ fn_out = <<>>
    /\ PureIdle /\ LifeIdle /\ ServIdle /\ ClientIdle

\* worker.rs:253-265, twice: get_cumulated(&children, value), then
\* get_cumulated(&children, |id| first[&id])
CumulateTwice ==
    /\ fn_out = <<>>
    /\ LET first == get_cumulated(fn_in.children, fn_in.value)
       IN  fn_out' = <<[first |-> first,
                        second |-> get_cumulated(fn_in.children, first)]>>
    /\ UNCHANGED fn_in
    /\ UNCHANGED <<pureVars, lifeVars, servVars, clientVars>>

NextCumulate == CumulateTwice

SpecCumulate == InitCumulate /\ [][NextCumulate]_vars

---------------------------------------------------------------------------
\* Claims about get_cumulated

\* the sum of f over the children of k
SumOfChildren(children, k, f) ==
    LET cs == ChildrenSet(children, k) IN SumOver(cs, [c \in cs |-> f[c]])

\* C15, as stated: cumulating the already-cumulated results over the same
\* adjacency yields the same map.
C15_Idempotent ==
    fn_out # <<>> => fn_out[1].second = fn_out[1].first

\* C15: the first cumulation gives every id its value plus the results of
\* its children; cumulating the results again gives every id its first
\* result plus the second results of its children, which is the same map
\* exactly when the first results of the children of every id sum to zero
\* (in particular when no id has children).
C15_SecondAddsChildrenAgain ==
    fn_out # <<>> =>
        LET children == fn_in.children
            first == fn_out[1].first
            second == fn_out[1].second
        IN  /\ DOMAIN first = DOMAIN children /\ DOMAIN second = DOMAIN children
            /\ \A k \in DOMAIN children :
                  /\ first[k] = fn_in.value[k] + SumOfChildren(children, k, first)
                  /\ second[k] = first[k] + SumOfChildren(children, k, second)
            /\ second = first <=>
                  \A k \in DOMAIN children : SumOfChildren(children, k, first) = 0

\* C15: 1 is the parent of 2 and both have value 1: 2, 1 and then 3, 1
C15_Witness ==
    /\ fn_out # <<>>
    /\ fn_in.children = <<<<2>>, <<>>>>
    /\ fn_in.value = <<1, 1>>
    /\ fn_out[1].first = <<2, 1>>
    /\ fn_out[1].second = <<3, 1>>

---------------------------------------------------------------------------
\* Claims about measure_pid_ticks and the cumulated totals (SpecPure)

\* T_cur(p) and T_prev(p): the self ticks over the subtree plus the pid's
\* reaped_subtree_ticks
TotalCur(cur, p) ==
    LET sub == Subtree(cur.children, p)
    IN  SumOver(sub, [d \in sub |-> cur.pids[d].total_self_ticks])
            + cur.pids[p].cumulated_total_subtree_ticks
TotalPrev(prevO, p) ==
    LET sub == PrevSubtree(prevO, p)
    IN  SumOver(sub, [d \in sub |-> PrevSelf(prevO, d)]) + PrevReaped(prevO, p)

\* the subtree of p changed by birth and death only
OnlyBirthAndDeath(prevO, cur, p) ==
    /\ \A d \in PrevSubtree(prevO, p) :
          d \notin DOMAIN cur.pids \/ d \in Subtree(cur.children, p)
    /\ \A d \in Subtree(cur.children, p) :
          d \in PrevPids(prevO) => d \in PrevSubtree(prevO, p)

\* C16: for a pid p of prev and cur whose subtree changed by birth and death
\* only, tick_delta(p) = T_cur(p) - T_prev(p) (so that over consecutive
\* samples, each retained as the next prev, the tick_deltas of p add up to
\* T_last(p) - T_first(p)).
C16_DeltaOfTotals ==
    (Measured /\ ~out[1].panic) =>
        \A p \in DOMAIN out[1].cur.pids \cap PrevPids(prev) :
            OnlyBirthAndDeath(prev, out[1].cur, p) =>
                out[1].ticks[p] = TotalCur(out[1].cur, p) - TotalPrev(prev, p)

\* C16: a pid whose subtree lost a process that had run and gained a new one
\* that has run
C16_Witness ==
    /\ Measured /\ ~out[1].panic
    /\ \E p \in DOMAIN out[1].cur.pids \cap PrevPids(prev) :
          /\ OnlyBirthAndDeath(prev, out[1].cur, p)
          /\ \E d \in PrevSubtree(prev, p) \ DOMAIN out[1].cur.pids : PrevSelf(prev, d) > 0
          /\ \E d \in Subtree(out[1].cur.children, p) \ PrevPids(prev) :
                out[1].cur.pids[d].total_self_ticks > 0
          /\ out[1].ticks[p] # 0

---------------------------------------------------------------------------
\* Claims about the lines of client::run (SpecClient)

\* C17: every line printed is computed from one complete frame of as many
\* loads as pids were requested; the loads received for a frame that the
\* end or the failure of the stream left incomplete are not printed.
C17_OnlyWholeFrames ==
    /\ ~client.short_line
    /\ client.chunk # <<>> => client.chunk[1].len = client.n

\* C17, what run does: a line of fewer loads is printed only for the loads
\* left when the stream ended, and it is the last line.
C17_ShortLineOnlyAtEnd ==
    /\ client.chunk # <<>> =>
          /\ client.chunk[1].len \in 1..client.n
          /\ client.chunk[1].len < client.n => client.ended
    /\ client.short_line => (client.ended /\ client.pc \in {"check", "next", "done"})

====
